---- MODULE Spec2Model ----
(***************************************************************************)
(* HockeyEnv of alternative_train.py: the goalie/puck episode simulation   *)
(* (reset, step, _check_save, _get_observation) as a state machine.        *)
(*                                                                         *)
(* Numbers are fixed point.  Positions and distances are in 1/1000 of a    *)
(* rink unit, velocities in 1/100000 of a unit per second, action          *)
(* components in 1/1000, rewards in 1/10000.  Every product is rounded to  *)
(* the grid, as the float arithmetic of the code rounds to its own grid.   *)
(* A float that is not finite is one of the three values NaN, PosInf,      *)
(* NegInf, and the arithmetic operators below treat them as IEEE-754 does. *)
(***************************************************************************)
EXTENDS Integers, Sequences, FiniteSets, TLC

\* ------------------------------------------------------------------ bounds

\* Number of states of the process-global numpy generator that are told apart.
RngPeriod == 2

\* step is not called on an instance whose episode_step has reached StepCap.
StepCap == 302

\* ---------------------------------------------------------- float arithmetic

NaN == 2000000001

PosInf == 2000000002

NegInf == 2000000003

IsNaN(x) == x = NaN

IsFinite(x) == x \notin {NaN, PosInf, NegInf}

Abs(x) == IF x < 0 THEN -x ELSE x

\* n / d rounded to the nearest grid point (d > 0).
RoundDiv(n, d) ==
    IF n >= 0 THEN (2 * n + d) \div (2 * d) ELSE -((2 * (-n) + d) \div (2 * d))

\* x + y
FAdd(x, y) ==
    IF IsNaN(x) \/ IsNaN(y) THEN NaN
    ELSE IF x = PosInf THEN (IF y = NegInf THEN NaN ELSE PosInf)
    ELSE IF x = NegInf THEN (IF y = PosInf THEN NaN ELSE NegInf)
    ELSE IF y \in {PosInf, NegInf} THEN y
    ELSE x + y

\* np.clip(x, lo, hi) = minimum(maximum(x, lo), hi); NaN propagates.
Clip(x, lo, hi) ==
    IF IsNaN(x) THEN NaN
    ELSE IF x = PosInf THEN hi
    ELSE IF x = NegInf THEN lo
    ELSE IF x < lo THEN lo
    ELSE IF x > hi THEN hi
    ELSE x

\* The largest s in lo .. hi with s * s <= n, by bisection.  The arguments are
\* bound to variables first, so that each level of the recursion works on
\* values and not on expressions to re-evaluate.
RECURSIVE SqrtSearch(_, _, _)
SqrtSearch(n, lo, hi) ==
    CHOOSE s \in { IF b[2] >= b[3] THEN b[2]
                   ELSE IF b[4] * b[4] <= b[1] THEN SqrtSearch(b[1], b[4], b[3])
                   ELSE SqrtSearch(b[1], b[2], b[4] - 1) :
                   b \in {<<n, lo, hi, (lo + hi + 1) \div 2>>} } : TRUE

\* np.linalg.norm(p - g): NaN as soon as one component is NaN; otherwise the
\* floor of sqrt(dx^2 + dz^2), which lies between max(|dx|, |dz|) and |dx| + |dz|.
Norm(p, g) ==
    IF IsNaN(g[1]) \/ IsNaN(g[2]) \/ IsNaN(p[1]) \/ IsNaN(p[2]) THEN NaN
    ELSE LET dx == Abs(p[1] - g[1])
             dz == Abs(p[2] - g[2])
         IN  SqrtSearch(dx * dx + dz * dz, IF dx > dz THEN dx ELSE dz, dx + dz)

\* ------------------------------------------------------------ the generator

\* np.random.uniform(-0.5, 0.5) in generator state r (velocity grid).
Uniform(r) == (100000 * r) \div (RngPeriod - 1) - 50000

\* The state of the global generator after one draw.
RngNext(r) == (r + 1) % RngPeriod

\* ---------------------------------------------------------------- constants

\* self.max_steps = 300
MAX_STEPS == 300

\* np.clip(self.goalie_pos, [-2.0, -1.5], [2.0, 1.5])
X_LIMIT == 2000

Z_LIMIT == 1500

\* abs(self.puck_pos[0]) > 8
MISS_X == 8000

\* abs(self.puck_pos[1]) < 0.5 and self.puck_pos[0] > 7
GOAL_Z == 500

GOAL_X == 7000

\* self.puck_pos[0] > 6 and abs(self.puck_pos[1]) < 1.0; distance < 1.0
SAVE_X == 6000

SAVE_Z == 1000

SAVE_RADIUS == 1000

\* max(0, 10 - distance_to_puck) * 0.1, in reward units
PROXIMITY == 10000

\* reward = 50, -200, 200, -10, in reward units
MISS_REWARD == 500000

GOAL_REWARD == -2000000

SAVE_REWARD == 2000000

TIMEOUT_REWARD == -100000

\* reset(self, seed=None, ...)
NoSeed == 0

\* ------------------------------------------------------------------- inputs

Insts == {"A", "B"}

Seeds == {NoSeed, 1}

\* Action vectors: zero, in range, out of range, NaN and infinite components.
Actions ==
    { <<0, 0>>, <<1000, 0>>, <<-1000, 0>>, <<5000, -15000>>,
      <<NaN, 0>>, <<PosInf, NegInf>> }

\* -------------------------------------------------------------------- state

VARIABLES
    env,     \* instance -> the fields of the HockeyEnv object
    rng,     \* the state of the process-global generator np.random
    ret,     \* instance -> what its last reset/step call returned
    ended,   \* instance -> a step since its last reset returned done = True
    run      \* the local variables of train_goalie's test loop

vars == <<env, rng, ret, ended, run>>

\* ------------------------------------------------------------- observations

\* dtype=np.float32: the state's grid is four times finer than float32's.
F32(x) == IF IsFinite(x) THEN 4 * RoundDiv(x, 4) ELSE x

\* Mutant: the puck's position is written before the goalie's.
GetObservationSwapped(e) ==
    << F32(e.puck_pos[1]), F32(e.puck_pos[2]),
       F32(e.goalie_pos[1]), F32(e.goalie_pos[2]),
       F32(e.puck_vel[1]), F32(e.puck_vel[2]),
       0, 0, 0, 0, 0, 0 >>

\* _get_observation
GetObservation(e) ==
    << F32(e.goalie_pos[1]), F32(e.goalie_pos[2]),
       F32(e.puck_pos[1]), F32(e.puck_pos[2]),
       F32(e.puck_vel[1]), F32(e.puck_vel[2]),
       0, 0, 0, 0, 0, 0 >>

\* ---------------------------------------------------------------- reset

\* gym.Env.reset(seed=seed): the instance's own generator is reseeded when a
\* seed is given and left alone otherwise.
SuperReset(np_random, seed) == IF seed = NoSeed THEN np_random ELSE seed

\* Mutant: the lateral velocity is drawn from twice the interval.
ResetFieldsWideShot(np_random, r, seed) ==
    [ goalie_pos   |-> <<0, 0>>,
      puck_pos     |-> <<-5000, 0>>,
      puck_vel     |-> <<200000, 2 * Uniform(r)>>,
      episode_step |-> 0,
      max_steps    |-> MAX_STEPS,
      puck_shot    |-> FALSE,
      np_random    |-> SuperReset(np_random, seed) ]

\* Mutant: the shot is twice as fast.
ResetFieldsHardShot(np_random, r, seed) ==
    [ goalie_pos   |-> <<0, 0>>,
      puck_pos     |-> <<-5000, 0>>,
      puck_vel     |-> <<400000, Uniform(r)>>,
      episode_step |-> 0,
      max_steps    |-> MAX_STEPS,
      puck_shot    |-> FALSE,
      np_random    |-> SuperReset(np_random, seed) ]

\* The fields after reset(seed) on an instance whose own generator is
\* np_random, with the global generator in state r.
ResetFields(np_random, r, seed) ==
    [ goalie_pos   |-> <<0, 0>>,
      puck_pos     |-> <<-5000, 0>>,
      puck_vel     |-> <<200000, Uniform(r)>>,
      episode_step |-> 0,
      max_steps    |-> MAX_STEPS,
      puck_shot    |-> FALSE,
      np_random    |-> SuperReset(np_random, seed) ]

\* What reset returns: (observation, {}).
ResetReturn(e) ==
    [ call |-> "reset", obs |-> GetObservation(e), reward |-> 0, done |-> FALSE,
      truncated |-> FALSE, info |-> {}, raised |-> "none" ]

\* ----------------------------------------------------------------- step

\* action * 0.1 for one component
MoveScale(a) == IF IsFinite(a) THEN RoundDiv(a, 10) ELSE a

\* self.goalie_pos += action * 0.1; self.goalie_pos = np.clip(...)
MoveGoalie(g, action) ==
    << Clip(FAdd(g[1], MoveScale(action[1])), -X_LIMIT, X_LIMIT),
       Clip(FAdd(g[2], MoveScale(action[2])), -Z_LIMIT, Z_LIMIT) >>

\* self.puck_pos += self.puck_vel * 0.02
MovePuck(p, v) == << p[1] + RoundDiv(v[1], 5000), p[2] + RoundDiv(v[2], 5000) >>

\* Mutant: the factor is 1.01.
FrictionGain(v) == << RoundDiv(v[1] * 101, 100), RoundDiv(v[2] * 101, 100) >>

\* self.puck_vel *= 0.99
Friction(v) == << RoundDiv(v[1] * 99, 100), RoundDiv(v[2] * 99, 100) >>

\* reward += max(0, 10 - distance_to_puck) * 0.1, from reward = 0.
\* Python's max(0, nan) is 0.
ShapingReward(p, g) ==
    LET d == Norm(p, g)
    IN  IF IsNaN(d) THEN 0
        ELSE IF PROXIMITY - d > 0 THEN PROXIMITY - d ELSE 0

\* Mutant: the save radius reaches from the clamped goalie to the goal area.
CheckSaveWide(p, g) ==
    LET distance == Norm(p, g)
        in_goal_area == p[1] > SAVE_X /\ Abs(p[2]) < SAVE_Z
    IN  (~IsNaN(distance) /\ distance < 6 * SAVE_RADIUS) /\ in_goal_area

\* _check_save: comparisons with NaN are False.
CheckSave(p, g) ==
    LET distance == Norm(p, g)
        in_goal_area == p[1] > SAVE_X /\ Abs(p[2]) < SAVE_Z
    IN  (~IsNaN(distance) /\ distance < SAVE_RADIUS) /\ in_goal_area

\* info[key] = value
DictSet(info, key, value) == {kv \in info : kv[1] # key} \cup {<<key, value>>}

\* Mutant: the goal test comes before the miss test.
EndConditionsGoalFirst(p, g, reward) ==
    IF Abs(p[2]) < GOAL_Z /\ p[1] > GOAL_X
    THEN [reward |-> GOAL_REWARD, done |-> TRUE, info |-> DictSet({}, "result", "goal")]
    ELSE IF Abs(p[1]) > MISS_X
    THEN [reward |-> MISS_REWARD, done |-> TRUE, info |-> DictSet({}, "result", "miss")]
    ELSE IF CheckSave(p, g)
    THEN [reward |-> SAVE_REWARD, done |-> TRUE, info |-> DictSet({}, "result", "save")]
    ELSE [reward |-> reward, done |-> FALSE, info |-> {}]

\* Mutant: a terminal reward is added to the shaping reward (reward += 50).
EndConditionsAdd(p, g, reward) ==
    IF Abs(p[1]) > MISS_X
    THEN [reward |-> reward + MISS_REWARD, done |-> TRUE,
          info |-> DictSet({}, "result", "miss")]
    ELSE IF Abs(p[2]) < GOAL_Z /\ p[1] > GOAL_X
    THEN [reward |-> reward + GOAL_REWARD, done |-> TRUE,
          info |-> DictSet({}, "result", "goal")]
    ELSE IF CheckSave(p, g)
    THEN [reward |-> reward + SAVE_REWARD, done |-> TRUE,
          info |-> DictSet({}, "result", "save")]
    ELSE [reward |-> reward, done |-> FALSE, info |-> {}]

\* The if/elif/elif chain of step: (reward, done, info) after it.
EndConditions(p, g, reward) ==
    IF Abs(p[1]) > MISS_X
    THEN [reward |-> MISS_REWARD, done |-> TRUE, info |-> DictSet({}, "result", "miss")]
    ELSE IF Abs(p[2]) < GOAL_Z /\ p[1] > GOAL_X
    THEN [reward |-> GOAL_REWARD, done |-> TRUE, info |-> DictSet({}, "result", "goal")]
    ELSE IF CheckSave(p, g)
    THEN [reward |-> SAVE_REWARD, done |-> TRUE, info |-> DictSet({}, "result", "save")]
    ELSE [reward |-> reward, done |-> FALSE, info |-> {}]

\* Mutant: the limit is compared with > instead of >=.
StepLimitLate(out, episode_step, max_steps) ==
    IF episode_step > max_steps
    THEN [reward |-> TIMEOUT_REWARD, done |-> TRUE,
          info |-> DictSet(out.info, "result", "timeout")]
    ELSE out

\* Mutant: the limit is an elif of the chain, skipped once an outcome is found.
StepLimitKeepsOutcome(out, episode_step, max_steps) ==
    IF episode_step >= max_steps /\ ~out.done
    THEN [reward |-> TIMEOUT_REWARD, done |-> TRUE,
          info |-> DictSet(out.info, "result", "timeout")]
    ELSE out

\* Mutant: the timeout sets reward and done but not info['result'].
StepLimitNoLabel(out, episode_step, max_steps) ==
    IF episode_step >= max_steps
    THEN [reward |-> TIMEOUT_REWARD, done |-> TRUE, info |-> out.info]
    ELSE out

\* if self.episode_step >= self.max_steps: overwrite with the timeout.
StepLimit(out, episode_step, max_steps) ==
    IF episode_step >= max_steps
    THEN [reward |-> TIMEOUT_REWARD, done |-> TRUE,
          info |-> DictSet(out.info, "result", "timeout")]
    ELSE out

\* Mutant: the goalie's move pushes the puck along.
StepResultPush(e, action) ==
    LET g == MoveGoalie(e.goalie_pos, action)
        q == MovePuck(e.puck_pos, e.puck_vel)
        p == << IF IsFinite(action[1]) THEN q[1] + MoveScale(action[1]) ELSE q[1], q[2] >>
        v == Friction(e.puck_vel)
        n == e.episode_step + 1
        out == StepLimit(EndConditions(p, g, ShapingReward(p, g)), n, e.max_steps)
        e2 == [e EXCEPT !.goalie_pos = g, !.puck_pos = p, !.puck_vel = v,
                        !.episode_step = n]
    IN  [ env |-> e2,
          ret |-> [ call |-> "step", obs |-> GetObservation(e2),
                    reward |-> out.reward, done |-> out.done,
                    truncated |-> FALSE, info |-> out.info, raised |-> "none" ] ]

\* Mutant: friction is applied before the puck moves, so the puck advances by
\* the velocity already slowed in this step.
StepResultFrictionFirst(e, action) ==
    LET g == MoveGoalie(e.goalie_pos, action)
        v == Friction(e.puck_vel)
        p == MovePuck(e.puck_pos, v)
        n == e.episode_step + 1
        out == StepLimit(EndConditions(p, g, ShapingReward(p, g)), n, e.max_steps)
        e2 == [e EXCEPT !.goalie_pos = g, !.puck_pos = p, !.puck_vel = v,
                        !.episode_step = n]
    IN  [ env |-> e2,
          ret |-> [ call |-> "step", obs |-> GetObservation(e2),
                    reward |-> out.reward, done |-> out.done,
                    truncated |-> FALSE, info |-> out.info, raised |-> "none" ] ]

\* step(action) on fields e: the new fields and the returned tuple.
StepResult(e, action) ==
    LET g == MoveGoalie(e.goalie_pos, action)
        p == MovePuck(e.puck_pos, e.puck_vel)
        v == Friction(e.puck_vel)
        n == e.episode_step + 1
        out == StepLimit(EndConditions(p, g, ShapingReward(p, g)), n, e.max_steps)
        e2 == [e EXCEPT !.goalie_pos = g, !.puck_pos = p, !.puck_vel = v,
                        !.episode_step = n]
    IN  [ env |-> e2,
          ret |-> [ call |-> "step", obs |-> GetObservation(e2),
                    reward |-> out.reward, done |-> out.done,
                    truncated |-> FALSE, info |-> out.info, raised |-> "none" ] ]

\* ------------------------------------------------------------------ actions

\* i.reset(seed=seed)
Reset(i, seed) ==
    \E e \in {ResetFields(env[i].np_random, rng, seed)} :
        /\ env' = [env EXCEPT ![i] = e]
        /\ rng' = RngNext(rng)
        /\ ret' = [ret EXCEPT ![i] = ResetReturn(e)]
        /\ ended' = [ended EXCEPT ![i] = FALSE]

\* i.step(action)
Step(i, action) ==
    \E r \in {StepResult(env[i], action)} :
        /\ env[i].episode_step < StepCap
        /\ env' = [env EXCEPT ![i] = r.env]
        /\ ret' = [ret EXCEPT ![i] = r.ret]
        /\ ended' = [ended EXCEPT ![i] = ended[i] \/ r.ret.done]
        /\ UNCHANGED rng

\* ---------------------------------------------------------- specification

\* The constructor calls self.reset(); its return value is dropped.
NoReturn ==
    [ call |-> "init", obs |-> <<>>, reward |-> 0, done |-> FALSE,
      truncated |-> FALSE, info |-> {}, raised |-> "none" ]

\* An instance that has not been constructed.
Unbuilt ==
    [ goalie_pos |-> <<0, 0>>, puck_pos |-> <<0, 0>>, puck_vel |-> <<0, 0>>,
      episode_step |-> 0, max_steps |-> 0, puck_shot |-> FALSE, np_random |-> NoSeed ]

\* The test loop of train_goalie is not running, and the caller holds no
\* array: noted is what the first observation array held when it was
\* returned and held what that array holds now; passed is what the last
\* action array held when it was passed to step and arg what it holds now.
NoRun ==
    [ pc |-> "idle", policy |-> "none", i |-> 0, episode_reward |-> 0,
      total_reward |-> 0, report |-> <<>>, avg_reward |-> 0, verdict |-> "none",
      noted |-> <<>>, held |-> <<>>, passed |-> <<>>, arg |-> <<>> ]

\* One environment, A, as train_goalie creates it; the global generator is in
\* any state.
Init ==
    \E r \in 0 .. RngPeriod - 1 :
        /\ env = [i \in Insts |-> IF i = "A" THEN ResetFields(NoSeed, r, NoSeed) ELSE Unbuilt]
        /\ rng = RngNext(r)
        /\ ret = [i \in Insts |-> NoReturn]
        /\ ended = [i \in Insts |-> FALSE]
        /\ run = NoRun

\* train_goalie resets its environment without a seed: env.reset()
ResetA == Reset("A", NoSeed) /\ UNCHANGED run

StepA == (\E action \in Actions : Step("A", action)) /\ UNCHANGED run

Next == ResetA \/ StepA

Spec == Init /\ [][Next]_vars

\* ------------------------------------------- step on a state set by the caller

\* The fields of the environment are plain public attributes: a caller (a unit
\* test of the classifier) sets them after reset and then calls step.  The
\* sets below put the puck next to each boundary of the end conditions and the
\* step counter next to the step limit.
AnyGoalie == { <<0, 0>>, <<2000, 0>> }

AnyPuckPos == { <<x, z>> : x \in {-7990, 6990, 7990}, z \in {0, 490, 990} }

AnyPuckVel == { <<200000, 50000>>, <<-200000, 0>> }

AnySteps == { MAX_STEPS - 3, MAX_STEPS - 2 }

InitAny ==
    \E g \in AnyGoalie, p \in AnyPuckPos, v \in AnyPuckVel, n \in AnySteps,
       r \in 0 .. RngPeriod - 1 :
        /\ env = [i \in Insts |->
                    IF i = "A"
                    THEN [ResetFields(NoSeed, r, NoSeed) EXCEPT
                             !.goalie_pos = g, !.puck_pos = p, !.puck_vel = v,
                             !.episode_step = n]
                    ELSE Unbuilt]
        /\ rng = RngNext(r)
        /\ ret = [i \in Insts |-> NoReturn]
        /\ ended = [i \in Insts |-> FALSE]
        /\ run = NoRun

NextAny == StepA

SpecAny == InitAny /\ [][NextAny]_vars

\* ------------------------------------------------- two runs, side by side

\* Two environments constructed one after the other in one process, then
\* driven with the same calls: reset(seed) on both, step(action) on both.
RunActions == { <<0, 0>>, <<1000, 0>> }

InitRuns ==
    \E r \in 0 .. RngPeriod - 1 :
        /\ env = [i \in Insts |->
                    IF i = "A" THEN ResetFields(NoSeed, r, NoSeed)
                    ELSE ResetFields(NoSeed, RngNext(r), NoSeed)]
        /\ rng = RngNext(RngNext(r))
        /\ ret = [i \in Insts |-> NoReturn]
        /\ ended = [i \in Insts |-> FALSE]
        /\ run = NoRun

\* A.reset(seed=seed); B.reset(seed=seed)
RunReset ==
    \E seed \in Seeds :
    \E a \in {ResetFields(env["A"].np_random, rng, seed)} :
    \E b \in {ResetFields(env["B"].np_random, RngNext(rng), seed)} :
        /\ env' = [i \in Insts |-> IF i = "A" THEN a ELSE b]
        /\ rng' = RngNext(RngNext(rng))
        /\ ret' = [i \in Insts |-> IF i = "A" THEN ResetReturn(a) ELSE ResetReturn(b)]
        /\ ended' = [i \in Insts |-> FALSE]
        /\ UNCHANGED run

\* A.step(action); B.step(action)
RunStep ==
    \E action \in RunActions :
    \E a \in {StepResult(env["A"], action)} :
    \E b \in {StepResult(env["B"], action)} :
        /\ env["A"].episode_step < StepCap
        /\ env' = [i \in Insts |-> IF i = "A" THEN a.env ELSE b.env]
        /\ ret' = [i \in Insts |-> IF i = "A" THEN a.ret ELSE b.ret]
        /\ ended' = [i \in Insts |-> ended[i] \/ (IF i = "A" THEN a.ret.done ELSE b.ret.done)]
        /\ UNCHANGED <<rng, run>>

NextRuns == RunReset \/ RunStep

SpecRuns == InitRuns /\ [][NextRuns]_vars

\* ------------------------------------------------------------------ claims

\* The outcome label of a returned info map, "active" when it has none.
Label(info) == IF info = {} THEN "active" ELSE (CHOOSE kv \in info : kv[1] = "result")[2]

\* C1: after every step, for any action, and right after reset, goalie_pos[0]
\* is in [-2.0, 2.0] and goalie_pos[1] is in [-1.5, 1.5].
C1_GoalieInBounds ==
    LET g == env["A"].goalie_pos
    IN  /\ IsFinite(g[1]) /\ -2000 <= g[1] /\ g[1] <= 2000
        /\ IsFinite(g[2]) /\ -1500 <= g[2] /\ g[2] <= 1500

\* C2: an episode started by reset has seen a step return terminated = true
\* once max_steps (300) step calls have been made; no episode is longer.
C2_EpisodeTerminates ==
    env["A"].episode_step >= 300 => ended["A"]

C2_Witness ==
    /\ ret["A"].call = "step"
    /\ env["A"].episode_step = 300
    /\ ret["A"].done

\* C3: on a step whose post-increment step count is below max_steps the
\* outcome is the first match of MISS, GOAL, SAVE on the post-step state, else
\* ACTIVE; MISS wins over GOAL and SAVE, GOAL wins over SAVE.
C3_OutcomePriority ==
    LET p == env["A"].puck_pos
        g == env["A"].goalie_pos
        miss == Abs(p[1]) > 8000
        goal == Abs(p[2]) < 500 /\ p[1] > 7000
        near == /\ IsFinite(g[1]) /\ IsFinite(g[2])
                /\ (p[1] - g[1]) * (p[1] - g[1]) + (p[2] - g[2]) * (p[2] - g[2])
                       < 1000 * 1000
        save == near /\ p[1] > 6000 /\ Abs(p[2]) < 1000
        label == Label(ret["A"].info)
    IN  (ret["A"].call = "step" /\ env["A"].episode_step < 300) =>
            /\ miss => label = "miss"
            /\ (~miss /\ goal) => label = "goal"
            /\ (~miss /\ ~goal /\ save) => label = "save"
            /\ (~miss /\ ~goal /\ ~save) => (label = "active" /\ ~ret["A"].done)

\* A step below the limit whose post-step state satisfies MISS and GOAL.
C3_Witness ==
    /\ ret["A"].call = "step"
    /\ env["A"].episode_step < 300
    /\ env["A"].puck_pos[1] > 8000
    /\ Abs(env["A"].puck_pos[2]) < 500
    /\ Label(ret["A"].info) = "miss"

\* C4: a step after which step_count >= max_steps returns terminated = true,
\* reward -10 and result 'timeout', whatever else holds in the post-step state.
C4_TimeoutOverrides ==
    (ret["A"].call = "step" /\ env["A"].episode_step >= 300) =>
        /\ ret["A"].done
        /\ ret["A"].reward = -100000
        /\ ret["A"].info = {<<"result", "timeout">>}

\* The step that reaches the limit with the puck out of bounds.
C4_Witness ==
    /\ ret["A"].call = "step"
    /\ env["A"].episode_step = 300
    /\ Abs(env["A"].puck_pos[1]) > 8000
    /\ ret["A"].info = {<<"result", "timeout">>}

\* C5: the reward is exactly 50 on miss, -200 on goal, 200 on save, -10 on
\* timeout (replacing the shaping reward), and on a non-terminal step exactly
\* max(0, 10 - distance(puck, goalie)) * 0.1 on the post-update positions.
C5_RewardExact ==
    LET p == env["A"].puck_pos
        g == env["A"].goalie_pos
        d == Norm(p, g)
        shaping == IF IsNaN(d) \/ 10000 - d < 0 THEN 0 ELSE 10000 - d
        label == Label(ret["A"].info)
    IN  ret["A"].call = "step" =>
            /\ label = "miss" => ret["A"].reward = 500000
            /\ label = "goal" => ret["A"].reward = -2000000
            /\ label = "save" => ret["A"].reward = 2000000
            /\ label = "timeout" => ret["A"].reward = -100000
            /\ ~ret["A"].done => ret["A"].reward = shaping

\* A miss on a step whose shaping reward was positive: 50, not 50 + shaping.
C5_Witness ==
    /\ ret["A"].call = "step"
    /\ Label(ret["A"].info) = "miss"
    /\ ret["A"].reward = 500000
    /\ IsFinite(env["A"].goalie_pos[1]) /\ IsFinite(env["A"].goalie_pos[2])
    /\ Norm(env["A"].puck_pos, env["A"].goalie_pos) < 10000

\* C6: two runs that reset with the same seed and then apply the same actions
\* return the same observations and the same rewards.
C6_Determinism ==
    (ret["A"].call = ret["B"].call /\ ret["A"].call # "init") =>
        /\ ret["A"].obs = ret["B"].obs
        /\ ret["A"].reward = ret["B"].reward

\* C7: step clamps the action to [-1, 1], so one step moves the goalie by at
\* most move_scale (0.1) on each axis.
C7_ActionClamped ==
    [][ LET g == env["A"].goalie_pos
            h == env["A"].goalie_pos'
        IN  ( /\ env["A"].episode_step' = env["A"].episode_step + 1
              /\ IsFinite(g[1]) /\ IsFinite(g[2])
              /\ IsFinite(h[1]) /\ IsFinite(h[2]) )
            => (Abs(h[1] - g[1]) <= 100 /\ Abs(h[2] - g[2]) <= 100) ]_vars

\* C8: a step after a step that returned terminated = true, with no reset in
\* between, raises InvalidSequenceError and leaves the simulation state as it was.
C8_NoStepAfterTerminal ==
    [][ (ended["A"] /\ ended["A"]') =>
            /\ env["A"]' = env["A"]
            /\ ret["A"].raised' = "InvalidSequenceError" ]_vars

\* C9: a non-finite action is rejected, so no NaN or infinite value is ever in
\* goalie_pos, puck_pos or puck_vel.
C9_StateFinite ==
    \A k \in 1 .. 2 :
        /\ IsFinite(env["A"].goalie_pos[k])
        /\ IsFinite(env["A"].puck_pos[k])
        /\ IsFinite(env["A"].puck_vel[k])

\* C10: for every step, truncated is false; terminated holds exactly when info
\* has the key 'result'; the result is one of miss, goal, save, timeout and
\* matches the reward; a non-terminal step returns an empty info map.
C10_InfoMatches ==
    ret["A"].call = "step" =>
        /\ ret["A"].truncated = FALSE
        /\ ret["A"].done <=> (\E kv \in ret["A"].info : kv[1] = "result")
        /\ ret["A"].info \subseteq
               { <<"result", l>> : l \in {"miss", "goal", "save", "timeout"} }
        /\ Cardinality(ret["A"].info) <= 1
        /\ <<"result", "miss">> \in ret["A"].info => ret["A"].reward = 500000
        /\ <<"result", "goal">> \in ret["A"].info => ret["A"].reward = -2000000
        /\ <<"result", "save">> \in ret["A"].info => ret["A"].reward = 2000000
        /\ <<"result", "timeout">> \in ret["A"].info => ret["A"].reward = -100000
        /\ ~ret["A"].done => ret["A"].info = {}

\* A terminal step below the step limit, labelled goal.
C10_Witness ==
    /\ ret["A"].call = "step"
    /\ ret["A"].done
    /\ ~ret["A"].truncated
    /\ ret["A"].info = {<<"result", "goal">>}
    /\ ret["A"].reward = -2000000

\* C11: reset, called in any state, sets goalie_pos to (0, 0), puck_pos to
\* (-5.0, 0.0), puck_vel x to 2.0, puck_vel z to a value in [-0.5, 0.5] and the
\* step count to 0, and returns the observation of that state and an empty
\* info map; nothing of the episode before survives.
C11_ResetState ==
    ret["A"].call = "reset" =>
        /\ env["A"].goalie_pos = <<0, 0>>
        /\ env["A"].puck_pos = <<-5000, 0>>
        /\ env["A"].puck_vel[1] = 200000
        /\ -50000 <= env["A"].puck_vel[2] /\ env["A"].puck_vel[2] <= 50000
        /\ env["A"].episode_step = 0
        /\ ~ended["A"]
        /\ Len(ret["A"].obs) = 12
        /\ [ret["A"].obs EXCEPT ![6] = 0] = <<0, 0, -5000, 0, 200000, 0, 0, 0, 0, 0, 0, 0>>
        /\ Abs(ret["A"].obs[6] - env["A"].puck_vel[2]) <= 2
        /\ ret["A"].info = {}

\* The state right after a reset call returned.
C11_Witness ==
    /\ ret["A"].call = "reset"
    /\ env["A"].episode_step = 0
    /\ env["A"].puck_pos = <<-5000, 0>>
    /\ ret["A"].info = {}

\* The six live fields of instance A, in the order of the observation.
LiveFields ==
    << env["A"].goalie_pos[1], env["A"].goalie_pos[2],
       env["A"].puck_pos[1], env["A"].puck_pos[2],
       env["A"].puck_vel[1], env["A"].puck_vel[2] >>

\* C12: every observation returned by reset or step has exactly 12 elements;
\* elements 0-5 are goalie x, goalie z, puck x, puck z, puck velocity x, puck
\* velocity z of the current state in that order, as float32 values (within
\* half a float32 step of the field, NaN for NaN); elements 6-11 are 0.
C12_ObsShape ==
    ret["A"].call \in {"reset", "step"} =>
        /\ Len(ret["A"].obs) = 12
        /\ \A k \in 1 .. 6 :
               IF IsFinite(LiveFields[k])
               THEN IsFinite(ret["A"].obs[k]) /\ Abs(ret["A"].obs[k] - LiveFields[k]) <= 2
               ELSE ret["A"].obs[k] = LiveFields[k]
        /\ \A k \in 7 .. 12 : ret["A"].obs[k] = 0

\* A step whose returned puck x is the float32 rounding of a puck x that
\* float32 does not hold.
C12_Witness ==
    /\ ret["A"].call = "step"
    /\ Len(ret["A"].obs) = 12
    /\ ret["A"].obs[3] # env["A"].puck_pos[1]

\* ------------------------------------------ the straight shot, goalie at rest

\* The environment right after a reset that drew the lateral velocity 0.0, then
\* stepped with the zero action until a step returns done.
InitShot ==
    \E r \in 0 .. RngPeriod - 1 :
        /\ env = [i \in Insts |->
                    IF i = "A"
                    THEN [ResetFields(NoSeed, r, NoSeed) EXCEPT !.puck_vel = <<200000, 0>>]
                    ELSE Unbuilt]
        /\ rng = RngNext(r)
        /\ ret = [i \in Insts |-> NoReturn]
        /\ ended = [i \in Insts |-> FALSE]
        /\ run = NoRun

ShotStep == ~ended["A"] /\ Step("A", <<0, 0>>) /\ UNCHANGED run

NextShot == ShotStep

SpecShot == InitShot /\ [][NextShot]_vars

\* C13: from the reset state with puck at (-5.0, 0.0) and velocity (2.0, 0.0),
\* with the zero action on every step, the episode ends with outcome miss and
\* reward 50.
C13_ZeroActionMiss ==
    (ret["A"].call = "step" /\ ret["A"].done) =>
        /\ Label(ret["A"].info) = "miss"
        /\ ret["A"].reward = 500000

\* --------------------------------------------------------------- policies

\* The policies the environment is driven with: stand still, skate right at
\* full speed, skate towards the puck at full speed.
Policies == {"still", "right", "chase"}

\* One component of the chasing policy: the action that closes the gap d in a
\* single step, clipped to the action space [-1, 1].
Towards(d) == Clip(10 * d, -1000, 1000)

\* action, _ = model.predict(obs, deterministic=True): a function of the
\* observation alone, with values in the action space.
Predict(policy, obs) ==
    IF policy = "still" THEN <<0, 0>>
    ELSE IF policy = "right" THEN <<1000, 0>>
    ELSE << Towards(obs[3] - obs[1]), Towards(obs[4] - obs[2]) >>

\* ------------------------------------------------- the goalie chases the puck

\* reset(), then step(action) with the chasing policy until a step returns done.
InitChase ==
    \E r \in 0 .. RngPeriod - 1 :
    \E e \in {ResetFields(NoSeed, r, NoSeed)} :
        /\ env = [i \in Insts |-> IF i = "A" THEN e ELSE Unbuilt]
        /\ rng = RngNext(r)
        /\ ret = [i \in Insts |-> IF i = "A" THEN ResetReturn(e) ELSE NoReturn]
        /\ ended = [i \in Insts |-> FALSE]
        /\ run = NoRun

ChaseStep ==
    /\ ~ended["A"]
    /\ Step("A", Predict("chase", ret["A"].obs))
    /\ UNCHANGED run

NextChase == ChaseStep

SpecChase == InitChase /\ [][NextChase]_vars

\* C14: an action sequence from the reset state (the goalie driving onto the
\* puck's path) puts the goalie within 1.0 of the puck while the puck is in the
\* goal area, and the episode ends on that step with outcome save and reward 200.
C14_ChaseSaves ==
    (ret["A"].call = "step" /\ ret["A"].done) =>
        /\ Label(ret["A"].info) = "save"
        /\ ret["A"].reward = 2000000

\* Support for C14, over every action sequence: the save condition never holds
\* after a step and no step returns save.
SaveNeverHolds ==
    ret["A"].call = "step" =>
        /\ ~CheckSave(env["A"].puck_pos, env["A"].goalie_pos)
        /\ Label(ret["A"].info) # "save"

\* C15: the step count is 0 after reset, grows by exactly 1 on every step call
\* and never exceeds max_steps (300), for any sequence of reset and step calls.
C15_StepCountBounded ==
    /\ 0 <= env["A"].episode_step
    /\ env["A"].episode_step <= 300
    /\ ret["A"].call = "reset" => env["A"].episode_step = 0

\* ------------------------------------------------ two instances, interleaved

\* Each instance takes at most this many steps between two of its resets.
InterleaveSteps == 3

\* Both instances are constructed; then any call on either of them.
TwoReset == (\E i \in Insts, seed \in Seeds : Reset(i, seed)) /\ UNCHANGED run

TwoStep ==
    /\ \E i \in Insts, action \in RunActions :
           env[i].episode_step < InterleaveSteps /\ Step(i, action)
    /\ UNCHANGED run

NextTwo == TwoReset \/ TwoStep

SpecTwo == InitRuns /\ [][NextTwo]_vars

\* What B's next calls would return: its next reset (with any seed) and its
\* next step (with any action), as functions of the current state.
FutureOfB ==
    [ reset |-> [seed \in Seeds |->
                    ResetReturn(ResetFields(env["B"].np_random, rng, seed))],
      step  |-> [action \in RunActions |-> StepResult(env["B"], action).ret] ]

\* C16: no mutable state is shared between instances: a reset or step call on
\* A leaves every later observation and reward of B as it would have been
\* without the call, the lateral velocity B draws on its next reset included.
C16_NoSharedState ==
    [][ (env["A"]' # env["A"] /\ env["B"]' = env["B"]) => FutureOfB' = FutureOfB ]_vars

\* ------------------------------------------------- the test loop of train_goalie

\* for i in range(10)
EPISODES == 10

\* total_reward / 10
DIVISOR == 10

\* avg_reward > 100, in reward units
WELL_ABOVE == 1000000

\* f"{x:.1f}": x to one decimal, in tenths.
Fmt1(x) == RoundDiv(x, 1000)

\* info.get(key, default)
InfoGet(info, key, default) ==
    IF \E kv \in info : kv[1] = key
    THEN (CHOOSE kv \in info : kv[1] = key)[2]
    ELSE default

\* result.upper()
Upper(result) ==
    CASE result = "miss" -> "MISS"
      [] result = "goal" -> "GOAL"
      [] result = "save" -> "SAVE"
      [] result = "timeout" -> "TIMEOUT"

\* Mutant: > 100 written as >= 100.
ClassifyAtLeast(avg_reward) ==
    IF avg_reward >= WELL_ABOVE THEN "performing well"
    ELSE IF avg_reward > 0 THEN "learning"
    ELSE "needs more training"

\* if avg_reward > 100: ... elif avg_reward > 0: ... else: ...
Classify(avg_reward) ==
    IF avg_reward > WELL_ABOVE THEN "performing well"
    ELSE IF avg_reward > 0 THEN "learning"
    ELSE "needs more training"

\* Mutant: the loop is left before the terminal step's reward is added.
AfterStepDropsLast(h, r) ==
    IF r.done \/ r.truncated
    THEN [h EXCEPT !.report = Append(@, << Upper(InfoGet(r.info, "result", "timeout")),
                                            Fmt1(h.episode_reward) >>),
                   !.total_reward = @ + h.episode_reward,
                   !.i = @ + 1,
                   !.pc = "episode"]
    ELSE [h EXCEPT !.episode_reward = @ + r.reward]

\* Mutant: the break is missing, the loop keeps stepping the ended episode.
AfterStepNoBreak(h, r) ==
    IF r.done \/ r.truncated
    THEN [h EXCEPT !.episode_reward = @ + r.reward,
                   !.report = Append(@, << Upper(InfoGet(r.info, "result", "timeout")),
                                            Fmt1(h.episode_reward + r.reward) >>),
                   !.total_reward = @ + h.episode_reward + r.reward,
                   !.i = @ + 1]
    ELSE [h EXCEPT !.episode_reward = @ + r.reward]

\* The body of the while loop after env.step returned r: episode_reward +=
\* reward; on done or truncated print the episode's line, add the episode to
\* total_reward and break to the next iteration of the for loop.
AfterStep(h, r) ==
    IF r.done \/ r.truncated
    THEN [h EXCEPT !.episode_reward = @ + r.reward,
                   !.report = Append(@, << Upper(InfoGet(r.info, "result", "timeout")),
                                            Fmt1(h.episode_reward + r.reward) >>),
                   !.total_reward = @ + h.episode_reward + r.reward,
                   !.i = @ + 1,
                   !.pc = "episode"]
    ELSE [h EXCEPT !.episode_reward = @ + r.reward]

\* obs, _ = env.reset(); total_reward = 0
HarnessBegin ==
    /\ run.pc = "start"
    /\ Reset("A", NoSeed)
    /\ run' = [run EXCEPT !.pc = "episode", !.total_reward = 0]

\* Mutant: the next episode starts without resetting the environment.
EpisodeBeginNoReset ==
    /\ run.pc = "episode"
    /\ run.i < EPISODES
    /\ run' = [run EXCEPT !.pc = "step", !.episode_reward = 0]
    /\ UNCHANGED <<env, rng, ret, ended>>

\* for i in range(10): obs, _ = env.reset(); episode_reward = 0
EpisodeBegin ==
    /\ run.pc = "episode"
    /\ run.i < EPISODES
    /\ Reset("A", NoSeed)
    /\ run' = [run EXCEPT !.pc = "step", !.episode_reward = 0]

\* One pass of the while loop: predict, step, account.
HarnessStep ==
    /\ run.pc = "step"
    /\ Step("A", Predict(run.policy, ret["A"].obs))
    /\ run' = AfterStep(run, ret["A"]')

\* After the for loop: the mean and its classification.
Finish ==
    /\ run.pc = "episode"
    /\ run.i >= EPISODES
    /\ \E avg \in {RoundDiv(run.total_reward, DIVISOR)} :
           run' = [run EXCEPT !.pc = "done", !.avg_reward = avg,
                              !.verdict = Classify(avg)]
    /\ UNCHANGED <<env, rng, ret, ended>>

\* The environment as constructed, the loop about to start, with any policy.
InitHarness ==
    \E r \in 0 .. RngPeriod - 1, policy \in Policies :
        /\ env = [i \in Insts |-> IF i = "A" THEN ResetFields(NoSeed, r, NoSeed) ELSE Unbuilt]
        /\ rng = RngNext(r)
        /\ ret = [i \in Insts |-> NoReturn]
        /\ ended = [i \in Insts |-> FALSE]
        /\ run = [NoRun EXCEPT !.pc = "start", !.policy = policy]

NextHarness == HarnessBegin \/ EpisodeBegin \/ HarnessStep \/ Finish

SpecHarness == InitHarness /\ [][NextHarness]_vars

\* ---------------------------------------------- the classification of a mean

\* The loop has run its episodes; total_reward is any sum ten episodes of at
\* most 300 steps can add up to, in steps of 25, with the values next to the
\* two thresholds.
Totals == {250000 * k : k \in -4 .. 100} \cup {-10, 10, 9999990, 10000010}

InitClassify ==
    \E r \in 0 .. RngPeriod - 1, total \in Totals :
        /\ env = [i \in Insts |-> IF i = "A" THEN ResetFields(NoSeed, r, NoSeed) ELSE Unbuilt]
        /\ rng = RngNext(r)
        /\ ret = [i \in Insts |-> NoReturn]
        /\ ended = [i \in Insts |-> FALSE]
        /\ run = [NoRun EXCEPT !.pc = "episode", !.policy = "still",
                               !.i = EPISODES, !.total_reward = total]

NextClassify == Finish

SpecClassify == InitClassify /\ [][NextClassify]_vars

\* ------------------------------------------------------- claims on the loop

\* C17: the test loop runs exactly 10 episodes in sequence; each episode
\* starts from a reset with episode_reward 0, every step call adds its returned
\* reward to episode_reward, the terminal step included, and the terminal step
\* appends exactly one (outcome, episode_reward) line to the report and adds
\* the episode's sum to total_reward; the mean is total_reward divided by the
\* number of episodes run.
C17_EpisodeSums ==
    [][ /\ Len(run.report') = run.i'
        /\ run.i' <= EPISODES
        /\ (run.pc = "episode" /\ run.pc' = "step") =>
               /\ ret["A"]'.call = "reset"
               /\ run.episode_reward' = 0
               /\ run.report' = run.report
               /\ run.total_reward' = run.total_reward
        /\ run.pc = "step" =>
               LET r == ret["A"]'
                   sum == run.episode_reward + r.reward
               IN  /\ r.call = "step"
                   /\ env["A"]'.episode_step = env["A"].episode_step + 1
                   /\ run.episode_reward' = sum
                   /\ IF r.done
                      THEN /\ \E kv \in r.info :
                                  /\ kv[1] = "result"
                                  /\ run.report' = Append(run.report, << Upper(kv[2]), Fmt1(sum) >>)
                           /\ run.total_reward' = run.total_reward + sum
                           /\ run.pc' = "episode"
                      ELSE /\ run.report' = run.report
                           /\ run.total_reward' = run.total_reward
                           /\ run.pc' = "step"
        /\ (run.pc # "done" /\ run.pc' = "done") =>
               /\ Len(run.report) = EPISODES
               /\ run.report' = run.report
               /\ run.avg_reward' = RoundDiv(run.total_reward, Len(run.report))
      ]_vars

\* The loop has finished: ten lines, the mean computed.
C17_Witness ==
    /\ run.pc = "done"
    /\ Len(run.report) = EPISODES
    /\ run.total_reward # 0

\* C18: the classification of the mean is total and exclusive: above 100 it
\* is "performing well", above 0 and up to 100 "learning", 0 or below "needs
\* more training"; 100 itself is "learning" and 0 itself "needs more training".
C18_Classification ==
    run.pc = "done" =>
        /\ run.avg_reward = RoundDiv(run.total_reward, 10)
        /\ run.verdict \in {"performing well", "learning", "needs more training"}
        /\ run.verdict = "performing well" <=> run.avg_reward > 1000000
        /\ run.verdict = "learning" <=> (0 < run.avg_reward /\ run.avg_reward <= 1000000)
        /\ run.verdict = "needs more training" <=> run.avg_reward <= 0

\* The mean is exactly 100 and the verdict is "learning".
C18_Witness ==
    /\ run.pc = "done"
    /\ run.avg_reward = 1000000
    /\ run.verdict = "learning"

\* C19: between two resets the magnitude of puck_vel never grows: every step
\* call, whatever its action, leaves each component at 0.99 times its value
\* (to the rounding of the product), no larger in magnitude and not zero unless
\* it was zero; only step and reset calls change the velocity.
C19_VelocityDecays ==
    [][ IF ret["A"]'.call = "step" /\ env["A"]'.episode_step = env["A"].episode_step + 1
        THEN \A k \in 1 .. 2 :
                 LET v == env["A"].puck_vel[k]
                     w == env["A"]'.puck_vel[k]
                 IN  /\ Abs(w) <= Abs(v)
                     /\ Abs(100 * w - 99 * v) <= 50
                     /\ v # 0 => w # 0
                     /\ v > 0 => w > 0
                     /\ v < 0 => w < 0
        ELSE \/ env["A"]'.puck_vel = env["A"].puck_vel
             \/ ret["A"]'.call = "reset" /\ env["A"]'.episode_step = 0
      ]_vars

\* Several steps into an episode the puck is slower than it was shot, and moving.
C19_Witness ==
    /\ ret["A"].call = "step"
    /\ env["A"].episode_step >= 3
    /\ env["A"].puck_vel[1] > 0
    /\ env["A"].puck_vel[1] < 195000
    /\ env["A"].puck_vel[2] # 0

\* C20: in an episode driven by the loop, a step is only taken while no step
\* of the episode has returned done, so exactly one step returns done and it is
\* the last one; that step's info holds exactly one outcome label, and the
\* report has one line for it.
C20_OneTerminalStep ==
    /\ run.pc = "step" => ~ended["A"]
    /\ (ret["A"].call = "step" /\ ret["A"].done) =>
           /\ run.pc \in {"episode", "done"}
           /\ ended["A"]
           /\ env["A"].episode_step = MAX_STEPS
           /\ Cardinality(ret["A"].info) = 1
           /\ \E kv \in ret["A"].info :
                  /\ kv[1] = "result"
                  /\ kv[2] \in {"miss", "goal", "save", "timeout"}
                  /\ run.report[Len(run.report)][1] = Upper(kv[2])
    /\ (ret["A"].call = "step" /\ ~ret["A"].done) => run.pc = "step"

\* An episode of the loop has just ended with its terminal step.
C20_Witness ==
    /\ run.pc = "episode"
    /\ run.i >= 1
    /\ ret["A"].call = "step"
    /\ ret["A"].done
    /\ Cardinality(ret["A"].info) = 1

\* ----------------------------------------------------- claims, continued

\* C21: a step on an environment on which the caller has not called reset
\* (the last call on it is its construction) raises InvalidSequenceError and
\* leaves the simulation state as it was.
C21_StepBeforeReset ==
    [][ (ret["A"].call = "init" /\ ret["A"]'.call = "step") =>
            /\ ret["A"]'.raised = "InvalidSequenceError"
            /\ env["A"]' = env["A"] ]_vars

\* ------------------------------------- the loop body on any returned tuple

\* What env.step may hand to the loop under the gymnasium step protocol the
\* loop is written against (it tests truncated and defaults a missing label):
\* a running step, the four labelled terminal steps, and an episode cut short
\* from outside, truncated with no label.
LoopReturns ==
    { [ call |-> "step", obs |-> <<0, 0, -5000, 0, 200000, 0, 0, 0, 0, 0, 0, 0>>,
        reward |-> t[1], done |-> t[2], truncated |-> t[3], info |-> t[4],
        raised |-> "none" ] :
      t \in { <<5000, FALSE, FALSE, {}>>,
              <<MISS_REWARD, TRUE, FALSE, {<<"result", "miss">>}>>,
              <<GOAL_REWARD, TRUE, FALSE, {<<"result", "goal">>}>>,
              <<SAVE_REWARD, TRUE, FALSE, {<<"result", "save">>}>>,
              <<TIMEOUT_REWARD, TRUE, FALSE, {<<"result", "timeout">>}>>,
              <<5000, FALSE, TRUE, {}>> } }

\* Rewards accumulated in the episode so far.
LoopSums == {0, 5000, 1000000}

\* Episodes already reported.
LoopDone == 0 .. 2

\* The loop is inside episode i + 1 and env.step has just returned.
InitLoop ==
    \E r \in 0 .. RngPeriod - 1, t \in LoopReturns, sum \in LoopSums, i \in LoopDone :
        /\ env = [j \in Insts |-> IF j = "A" THEN ResetFields(NoSeed, r, NoSeed) ELSE Unbuilt]
        /\ rng = RngNext(r)
        /\ ret = [j \in Insts |-> IF j = "A" THEN t ELSE NoReturn]
        /\ ended = [j \in Insts |-> j = "A" /\ t.done]
        /\ run = [NoRun EXCEPT !.pc = "step", !.policy = "still", !.i = i,
                               !.episode_reward = sum,
                               !.report = [k \in 1 .. i |-> <<"TIMEOUT", Fmt1(TIMEOUT_REWARD)>>],
                               !.total_reward = i * TIMEOUT_REWARD]

\* The rest of the while body after env.step returned; the returned tuple is
\* consumed once.
LoopBody ==
    /\ run.pc = "step"
    /\ ret["A"].call = "step"
    /\ run' = AfterStep(run, ret["A"])
    /\ ret' = [ret EXCEPT !["A"].call = "unpacked"]
    /\ UNCHANGED <<env, rng, ended>>

NextLoop == LoopBody

SpecLoop == InitLoop /\ [][NextLoop]_vars

C23_StepOrder ==
    [][ LET e == env["A"]
            f == env["A"]'
            r == ret["A"]'
            miss == Abs(f.puck_pos[1]) > 8000
            goal == Abs(f.puck_pos[2]) < 500 /\ f.puck_pos[1] > 7000
            save == CheckSave(f.puck_pos, f.goalie_pos)
            limit == e.episode_step + 1 >= e.max_steps
        IN  r.call = "step" =>
                /\ \E action \in Actions :
                       f.goalie_pos =
                           << Clip(FAdd(e.goalie_pos[1], MoveScale(action[1])), -2000, 2000),
                              Clip(FAdd(e.goalie_pos[2], MoveScale(action[2])), -1500, 1500) >>
                /\ f.puck_pos = << e.puck_pos[1] + RoundDiv(e.puck_vel[1], 5000),
                                   e.puck_pos[2] + RoundDiv(e.puck_vel[2], 5000) >>
                /\ f.puck_vel = << RoundDiv(99 * e.puck_vel[1], 100),
                                   RoundDiv(99 * e.puck_vel[2], 100) >>
                /\ f.episode_step = e.episode_step + 1
                /\ r.done <=> (miss \/ goal \/ save \/ limit)
                /\ ~r.done => r.reward = ShapingReward(f.puck_pos, f.goalie_pos)
                /\ ~limit => /\ Label(r.info) = "miss" <=> miss
                             /\ Label(r.info) = "goal" <=> (~miss /\ goal)
                             /\ Label(r.info) = "save" <=> (~miss /\ ~goal /\ save)
                /\ limit => Label(r.info) = "timeout" ]_vars

\* A puck at x = 7.99 before the step, not yet out of bounds, is reported as a
\* miss by the step that moves it to x = 8.03.
C23_Witness ==
    /\ ret["A"].call = "step"
    /\ Label(ret["A"].info) = "miss"
    /\ env["A"].puck_pos[1] = 8030
    /\ env["A"].episode_step = MAX_STEPS - 2

\* C24: in every episode started by reset, for every drawn lateral velocity
\* and every action sequence, puck x stays in [-5, -1) and |puck z| below 1
\* through the episode's max_steps steps, so no miss, goal or save condition
\* holds: steps 1 to max_steps - 1 return terminated = false with no label and
\* step max_steps returns timeout with reward -10.
C24_AlwaysTimeout ==
    env["A"].episode_step <= MAX_STEPS =>
        /\ -5000 <= env["A"].puck_pos[1] /\ env["A"].puck_pos[1] < -1000
        /\ Abs(env["A"].puck_pos[2]) < 1000
        /\ ret["A"].call = "step" =>
               IF env["A"].episode_step < MAX_STEPS
               THEN /\ ~ret["A"].done
                    /\ ret["A"].info = {}
                    /\ ret["A"].reward >= 0
               ELSE /\ ret["A"].done
                    /\ ret["A"].info = {<<"result", "timeout">>}
                    /\ ret["A"].reward = -100000

\* The last step of an episode: the puck has covered most of its four units
\* and the step returns timeout.
C24_Witness ==
    /\ ret["A"].call = "step"
    /\ env["A"].episode_step = MAX_STEPS
    /\ ret["A"].done
    /\ env["A"].puck_pos[1] > -1300
    /\ Abs(env["A"].puck_pos[2]) > 900

\* C25: no step returns the outcome 'save', from any state and whatever the
\* puck position: the goalie the save check sees has x <= 2.0 (or is NaN),
\* and a puck with x > 6 is then never within distance 1.0 of it.
C25_NeverSave ==
    ret["A"].call = "step" =>
        /\ Label(ret["A"].info) # "save"
        /\ ret["A"].reward # 2000000
        /\ IsNaN(env["A"].goalie_pos[1]) \/ env["A"].goalie_pos[1] <= 2000
        /\ ~CheckSave(env["A"].puck_pos, env["A"].goalie_pos)

\* The puck is in the goal area, off the goal line, with the goalie as close
\* as the clamp lets it come: the step goes on without an outcome.
C25_Witness ==
    /\ ret["A"].call = "step"
    /\ ~ret["A"].done
    /\ env["A"].puck_pos[1] > 6000
    /\ Abs(env["A"].puck_pos[2]) < 1000
    /\ env["A"].goalie_pos[1] = 2000

\* -------------------------------- two runs from one state, different actions

\* The actions the two runs choose from, each on its own.
PairActions == { <<0, 0>>, <<1000, 0>>, <<-1000, 1000>>, <<NaN, 0>> }

\* Two environments hold the same caller-set state: the same goalie, puck
\* position, puck velocity and step count.
InitPair ==
    \E g \in AnyGoalie, p \in AnyPuckPos, v \in AnyPuckVel, n \in AnySteps,
       r \in 0 .. RngPeriod - 1 :
        /\ env = [i \in Insts |->
                    [ResetFields(NoSeed, r, NoSeed) EXCEPT
                        !.goalie_pos = g, !.puck_pos = p, !.puck_vel = v,
                        !.episode_step = n]]
        /\ rng = RngNext(r)
        /\ ret = [i \in Insts |-> NoReturn]
        /\ ended = [i \in Insts |-> FALSE]
        /\ run = NoRun

\* A.step(a); B.step(b), until both runs have had their terminal step.
PairStep ==
    \E action \in PairActions, other \in PairActions :
    \E a \in {StepResult(env["A"], action)} :
    \E b \in {StepResult(env["B"], other)} :
        /\ ~(ended["A"] /\ ended["B"])
        /\ env["A"].episode_step < StepCap
        /\ env' = [i \in Insts |-> IF i = "A" THEN a.env ELSE b.env]
        /\ ret' = [i \in Insts |-> IF i = "A" THEN a.ret ELSE b.ret]
        /\ ended' = [i \in Insts |-> ended[i] \/ (IF i = "A" THEN a.ret.done ELSE b.ret.done)]
        /\ UNCHANGED <<rng, run>>

NextPair == PairStep

SpecPair == InitPair /\ [][NextPair]_vars

\* C26: the puck does not depend on the actions: two runs from the same puck
\* position and velocity have the same puck_pos and puck_vel after every step
\* whatever actions each applies, and a step of one reports miss, goal or
\* timeout exactly when the same step of the other does.
C26_PuckIgnoresActions ==
    /\ env["A"].puck_pos = env["B"].puck_pos
    /\ env["A"].puck_vel = env["B"].puck_vel
    /\ env["A"].episode_step = env["B"].episode_step
    /\ ret["A"].done = ret["B"].done
    /\ ended["A"] = ended["B"]
    /\ \A l \in {"miss", "goal", "timeout"} :
           <<"result", l>> \in ret["A"].info <=> <<"result", l>> \in ret["B"].info

\* The two goalies have gone different ways and both runs report the miss on
\* the same step.
C26_Witness ==
    /\ env["A"].goalie_pos # env["B"].goalie_pos
    /\ ret["A"].reward = MISS_REWARD
    /\ ret["B"].reward = MISS_REWARD
    /\ <<"result", "miss">> \in ret["A"].info

\* On a running step the rewards of the two runs differ: the action reaches
\* the shaping reward through the goalie.
C26_RewardsDiffer ==
    /\ ret["A"].call = "step"
    /\ ~ret["A"].done
    /\ ret["A"].reward # ret["B"].reward

\* ------------------------------------------------ the loop, run to its end

\* train_goalie is the only thread: whenever the loop has a next statement it
\* is eventually executed.  This is WF_vars(NextHarness) written out, with
\* ENABLED <<NextHarness>>_vars replaced by its value: a statement is enabled,
\* and changes the state, exactly when the loop has not reached its end.
LoopRuns == run.pc # "done"

FairHarness == SpecHarness /\ ([]<>(~LoopRuns) \/ []<><<NextHarness>>_vars)

\* C27: the loop keeps to the reset/step protocol: every step call it makes is
\* on an environment that has been reset since its last terminal step, no
\* episode takes more than max_steps step calls, and the whole evaluation
\* comes to its end.
C27_ProtocolAndEnd ==
    /\ [][ (ret["A"]'.call = "step" /\ env["A"]' # env["A"]) => ~ended["A"] ]_vars
    /\ [](env["A"].episode_step <= MAX_STEPS)
    /\ <>(run.pc = "done")

\* The evaluation is over; the last call on the environment was the terminal
\* step of the tenth episode.
C27_Witness ==
    /\ run.pc = "done"
    /\ run.i = EPISODES
    /\ ended["A"]
    /\ env["A"].episode_step = MAX_STEPS

\* C28: a terminal step returns a reward in {50, -200, 200, -10}; a running
\* step returns a reward in [0, 1.0], never negative, that is 0 exactly when
\* the distance between puck and goalie is 10 or more.
C28_RewardRange ==
    ret["A"].call = "step" =>
        IF ret["A"].done
        THEN ret["A"].reward \in {500000, -2000000, 2000000, -100000}
        ELSE LET d == Norm(env["A"].puck_pos, env["A"].goalie_pos)
             IN  /\ 0 <= ret["A"].reward
                 /\ ret["A"].reward <= 10000
                 /\ ret["A"].reward = 0 <=> (~IsNaN(d) /\ d >= 10000)

\* --------------------------------------------- arrays the caller keeps hold of

\* step is not called by this caller beyond SnapSteps steps of an episode.
SnapSteps == 4

\* Mutant: the observation is a view on the live fields.
ObsArrayAfterView(arr, e) == GetObservation(e)

\* What an observation array returned earlier holds after a later call has
\* left the fields e: np.array([...], dtype=np.float32) copies six scalars
\* into a new array, which keeps no reference to the fields.
ObsArrayAfter(arr, e) == arr

\* Mutant: the action is scaled in place (action *= 0.1).
ActionArrayAfterScaled(action) == << MoveScale(action[1]), MoveScale(action[2]) >>

\* What the caller's action array holds after step(action): action * 0.1 is a
\* temporary, the += writes to goalie_pos.
ActionArrayAfter(action) == action

\* The caller keeps the first observation array it is handed, and looks at it
\* again after every call that returned r and left the fields e.
Keep(h, r, e) ==
    IF h.noted = <<>>
    THEN [h EXCEPT !.noted = r.obs, !.held = r.obs]
    ELSE [h EXCEPT !.held = ObsArrayAfter(h.held, e)]

InitSnap ==
    \E r \in 0 .. RngPeriod - 1 :
        /\ env = [i \in Insts |-> IF i = "A" THEN ResetFields(NoSeed, r, NoSeed) ELSE Unbuilt]
        /\ rng = RngNext(r)
        /\ ret = [i \in Insts |-> NoReturn]
        /\ ended = [i \in Insts |-> FALSE]
        /\ run = [NoRun EXCEPT !.pc = "caller"]

\* obs, info = env.reset()
SnapReset ==
    /\ Reset("A", NoSeed)
    /\ run' = Keep(run, ret["A"]', env["A"]')

\* obs, reward, done, truncated, info = env.step(action)
SnapStep ==
    \E action \in Actions :
        /\ env["A"].episode_step < SnapSteps
        /\ Step("A", action)
        /\ run' = [Keep(run, ret["A"]', env["A"]') EXCEPT
                      !.passed = action, !.arg = ActionArrayAfter(action)]

NextSnap == SnapReset \/ SnapStep

SpecSnap == InitSnap /\ [][NextSnap]_vars

====
